---- MODULE Spec2Model ----
(***************************************************************************)
(* The persistent iteration of the record store of gdey/db_tutorial        *)
(* (package db: Row codec, Pager, Table, Cursor, statement execution and   *)
(* the command loop Main).                                                 *)
(*                                                                         *)
(* The layout is kept, the sizes are scaled: a "cell" stands for a byte,   *)
(* the uint32 key occupies one cell of Uint32Bits bits, the two text       *)
(* columns have ColumnUsernameSize and ColumnEmailSize cells, and every    *)
(* derived size (RowSize, RowsPerPage, TableMaxRows) is derived as in the  *)
(* source.  The backing file is a sequence of cells.                       *)
(***************************************************************************)
EXTENDS Integers, Sequences, FiniteSets, TLC

(***************************************************************************)
(* Sizes (scaled).  Source values: ColumnUsernameSize = 32,                *)
(* ColumnEmailSize = 255, PageSize = 4096, TableMaxPages = 100, uint32 is  *)
(* 32 bits wide and int is 64 bits wide.                                   *)
(***************************************************************************)
ColumnUsernameSize == 2
ColumnEmailSize == 2
PageSize == 11
TableMaxPages == 2
Uint32Bits == 3
IntBits == 5

KeyMod == 2 ^ Uint32Bits
IntMax == 2 ^ (IntBits - 1) - 1
IntMin == 0 - 2 ^ (IntBits - 1)

RowSize == 1 + ColumnUsernameSize + ColumnEmailSize
RowsPerPage == PageSize \div RowSize
TableMaxRows == RowsPerPage * TableMaxPages

Min(a, b) == IF a < b THEN a ELSE b

Nil == "nil"

\* A nil *Page (a Page has RowsPerPage >= 1 row buffers) and a nil *Statement.
NilPage == <<>>
NilStatement == [Type |-> "nil"]

(***************************************************************************)
(* Byte buffers.                                                           *)
(***************************************************************************)
Zeros(n) == [i \in 1..n |-> 0]

\* Go's copy(dst, src): the first min(len(dst), len(src)) cells of dst are
\* replaced, the rest of dst is kept.
Copy(dst, src) == [i \in 1..Len(dst) |-> IF i <= Len(src) THEN src[i] ELSE dst[i]]

\* Go's s[from:] for a 0-based offset.
From(s, from) == SubSeq(s, from + 1, Len(s))

\* bytes.IndexByte(b, 0): 0-based index of the first zero cell, -1 if none.
IndexByte0(b) ==
    IF \E i \in 1..Len(b) : b[i] = 0
    THEN (CHOOSE i \in 1..Len(b) : b[i] = 0 /\ \A j \in 1..(i - 1) : b[j] # 0) - 1
    ELSE 0 - 1

\* uint32(x) of a Go int.
Uint32(x) == x % KeyMod

\* x + 1 on a Go int (two's complement wrap).
IntInc(x) == IF x = IntMax THEN IntMin ELSE x + 1

(***************************************************************************)
(* Row codec.                                                              *)
(***************************************************************************)
Seralize(r) == <<r.ID>> \o r.Username \o r.Email

DeseralizeRow(source) ==
    [ID |-> source[1],
     Username |-> SubSeq(source, 2, 1 + ColumnUsernameSize),
     Email |-> SubSeq(source, 2 + ColumnUsernameSize, RowSize)]

\* Row.String: the text "(%d, %s, %s)" as the triple of its three fields.
RowString(r) ==
    LET u == IndexByte0(r.Username)
        userLen == IF u = 0 - 1 THEN ColumnUsernameSize ELSE u
        e == IndexByte0(r.Email)
        emailLen == IF e = 0 - 1 THEN ColumnEmailSize ELSE e
    IN  <<Uint32(r.ID - 1), SubSeq(r.Username, 1, userLen), SubSeq(r.Email, 1, emailLen)>>

(***************************************************************************)
(* Backing file: os.File.ReadAt / WriteAt on a sequence of cells.          *)
(*   io   the state of the device: io.read and io.write are the pages      *)
(*        whose ReadAt / WriteAt fails with an I/O error                   *)
(***************************************************************************)
VARIABLE io

NoFaults == [read |-> {}, write |-> {}]

\* ReadAt(buf[:n], off): the cells read (a short read at end of file) and
\* the error ("eof" for a short read, "neg" for a negative offset, "io" for
\* a failure of the device, which reads nothing).
ReadAt(f, n, off) ==
    IF off < 0 THEN [data |-> <<>>, err |-> "neg"]
    ELSE IF (off \div PageSize) \in io.read THEN [data |-> <<>>, err |-> "io"]
    ELSE LET d == SubSeq(f, off + 1, Min(off + n, Len(f)))
         IN  [data |-> d, err |-> IF Len(d) < n THEN "eof" ELSE Nil]

\* The file after a WriteAt that succeeds: the cells are overwritten, the
\* file is extended (zero filled) as needed.
Overwritten(f, data, off) ==
    LET newLen == IF off + Len(data) > Len(f) THEN off + Len(data) ELSE Len(f)
    IN  [i \in 1..newLen |->
            IF i > off /\ i <= off + Len(data) THEN data[i - off]
            ELSE IF i <= Len(f) THEN f[i] ELSE 0]

\* WriteAt(data, off): [file, err]; a failure of the device writes nothing.
WriteAt(f, data, off) ==
    IF (off \div PageSize) \in io.write THEN [file |-> f, err |-> "io"]
    ELSE [file |-> Overwritten(f, data, off), err |-> Nil]

(***************************************************************************)
(* Pager.  A pager is [backing, Length, pages]; pages maps a page number   *)
(* to NilPage or to a Page, a sequence of RowsPerPage row buffers.             *)
(***************************************************************************)
NoPages == [p \in 0..(TableMaxPages - 1) |-> NilPage]

ZeroPage == [r \in 1..RowsPerPage |-> Zeros(RowSize)]

\* The conversion loop of Pager.Get: row slots whose offset lies within the
\* cells read are copied from the page buffer, the others stay zero.
PageOfBytes(pageByte, bytesRead) ==
    [r \in 1..RowsPerPage |->
        IF (r - 1) * RowSize >= bytesRead THEN Zeros(RowSize)
        ELSE Copy(Zeros(RowSize), From(pageByte, (r - 1) * RowSize))]

\* The page buffer filled by ReadAt, converted to a page: [err, page, read]
\* (read lists the page numbers read from the file).  An error other than
\* io.EOF makes Pager.Get return it.
PageOfRead(rd, pageNum) ==
    IF rd.err \in {"io", "neg"} THEN [err |-> rd.err, page |-> NilPage, read |-> <<>>]
    ELSE [err |-> Nil,
          page |-> PageOfBytes(Copy(Zeros(PageSize), rd.data), Len(rd.data)),
          read |-> <<pageNum>>]

\* The cache miss of Pager.Get: the new page, loaded from the file when the
\* page number lies within the pages on disk (a partial last page counts).
LoadPage(f, length, pageNum) ==
    LET whole == length \div PageSize
        numberOfPages == IF length % PageSize # 0 THEN whole + 1 ELSE whole
    IN  IF pageNum < numberOfPages
        THEN PageOfRead(ReadAt(f, PageSize, pageNum * PageSize), pageNum)
        ELSE [err |-> Nil, page |-> ZeroPage, read |-> <<>>]

\* The end of Pager.Get on a miss: the page is cached and returned, unless
\* the read failed.
Cached(pages, pageNum, ld) ==
    IF ld.err # Nil
    THEN [err |-> ld.err, page |-> NilPage, pages |-> pages, read |-> ld.read]
    ELSE [err |-> Nil, page |-> ld.page,
          pages |-> [pages EXCEPT ![pageNum] = ld.page], read |-> ld.read]

\* The bounds test of Pager.Get and Pager.Flush.
OutOfBounds(pageNum) == pageNum > TableMaxPages

\* (variant: the cache is not consulted, every Get loads the page again)
PagerGet_Reload(f, p, pageNum) ==
    IF OutOfBounds(pageNum)
    THEN [err |-> "bounds", page |-> NilPage, pages |-> p.pages, read |-> <<>>]
    ELSE IF pageNum >= TableMaxPages
    THEN [err |-> "panic", page |-> NilPage, pages |-> p.pages, read |-> <<>>]
    ELSE Cached(p.pages, pageNum, LoadPage(f, p.Length, pageNum))

\* Pager.Get: [err, page, pages, read] (pages is the cache after the call).
\* A page number that passes the bounds test and lies outside the array
\* indexes it out of range: err "panic".
PagerGet(f, p, pageNum) ==
    IF OutOfBounds(pageNum)
    THEN [err |-> "bounds", page |-> NilPage, pages |-> p.pages, read |-> <<>>]
    ELSE IF pageNum >= TableMaxPages
    THEN [err |-> "panic", page |-> NilPage, pages |-> p.pages, read |-> <<>>]
    ELSE IF p.pages[pageNum] # NilPage
    THEN [err |-> Nil, page |-> p.pages[pageNum], pages |-> p.pages, read |-> <<>>]
    ELSE Cached(p.pages, pageNum, LoadPage(f, p.Length, pageNum))

\* The flattening loop of Pager.Flush.
\* (variant: row r is copied to offset r of the buffer, not r * RowSize)
BytesOfPage_RowIndex(page) ==
    [i \in 1..PageSize |->
        IF i <= RowsPerPage + RowSize - 1
        THEN page[Min(i, RowsPerPage)][i - Min(i, RowsPerPage) + 1]
        ELSE 0]

\* (variant: only the cells of the rows are written, not the whole page)
BytesOfPage_RowsOnly(page) ==
    [i \in 1..(RowsPerPage * RowSize) |->
        page[((i - 1) \div RowSize) + 1][((i - 1) % RowSize) + 1]]

BytesOfPage(page) ==
    [i \in 1..PageSize |->
        IF i <= RowsPerPage * RowSize
        THEN page[((i - 1) \div RowSize) + 1][((i - 1) % RowSize) + 1]
        ELSE 0]

\* Pager.Flush after its WriteAt: [file, err, wrote] (wrote lists the page
\* numbers handed to WriteAt with success).
Flushed(w, pageNum) ==
    [file |-> w.file, err |-> w.err,
     wrote |-> IF w.err = Nil THEN <<pageNum>> ELSE <<>>]

\* Pager.Flush, the test for a page that was never loaded.
\* (variant: a page slot that is nil is written as a page of zeros)
FlushResident_All(f, p, pageNum) ==
    Flushed(WriteAt(f, BytesOfPage(IF p.pages[pageNum] = NilPage THEN ZeroPage
                                   ELSE p.pages[pageNum]),
                    pageNum * PageSize), pageNum)

FlushResident(f, p, pageNum) ==
    IF p.pages[pageNum] = NilPage THEN [file |-> f, err |-> Nil, wrote |-> <<>>]
    ELSE Flushed(WriteAt(f, BytesOfPage(p.pages[pageNum]), pageNum * PageSize), pageNum)

\* Pager.Flush: [file, err, wrote].
PagerFlush(f, p, pageNum) ==
    IF OutOfBounds(pageNum) THEN [file |-> f, err |-> "bounds", wrote |-> <<>>]
    ELSE IF pageNum >= TableMaxPages THEN [file |-> f, err |-> "panic", wrote |-> <<>>]
    ELSE FlushResident(f, p, pageNum)

\* Pager.SyncToDisk: Flush of every page slot, in index order from i:
\* [file, err, wrote].  SyncStep is the loop after the Flush of slot i.
RECURSIVE SyncFrom(_, _, _)
After(wrote, rest) == [rest EXCEPT !.wrote = wrote \o rest.wrote]

\* (variant: the error of a Flush is remembered and the loop goes on)
SyncStep_KeepGoing(p, i, fl) ==
    [After(fl.wrote, SyncFrom(fl.file, p, i + 1)) EXCEPT !.err = fl.err]

SyncStep(p, i, fl) ==
    IF fl.err # Nil THEN fl
    ELSE After(fl.wrote, SyncFrom(fl.file, p, i + 1))

SyncFrom(f, p, i) ==
    IF i >= TableMaxPages THEN [file |-> f, err |-> Nil, wrote |-> <<>>]
    ELSE SyncStep(p, i, PagerFlush(f, p, i))

SyncToDisk(f, p) == SyncFrom(f, p, 0)

\* The counting loop of numberOfRowsOnDisk: leading slots with a non-zero id.
RECURSIVE CountRows(_, _)
CountRows(pageByte, i) ==
    IF i >= RowsPerPage THEN 0
    ELSE IF DeseralizeRow(SubSeq(pageByte, i * RowSize + 1, (i + 1) * RowSize)).ID = 0 THEN 0
    ELSE 1 + CountRows(pageByte, i + 1)

\* numberOfRowsOnDisk after its ReadAt of the last page: [panic, rows].
RowsOfLastPage(numberOfPages, rd) ==
    IF rd.err \in {"neg", "io"} THEN [panic |-> TRUE, rows |-> 0]
    ELSE IF Len(rd.data) = 0
    THEN [panic |-> FALSE, rows |-> (numberOfPages - 1) \div RowsPerPage]
    ELSE [panic |-> FALSE,
          rows |-> ((numberOfPages - 1) \div RowsPerPage)
                   + CountRows(Copy(Zeros(PageSize), rd.data), 0)]

\* Pager.numberOfRowsOnDisk: [panic, rows].
numberOfRowsOnDisk(f, length) ==
    IF length = 0 THEN [panic |-> FALSE, rows |-> 0]
    ELSE RowsOfLastPage(length \div PageSize,
                        ReadAt(f, PageSize, ((length \div PageSize) - 1) * PageSize))

\* NewPager: the file is opened (created empty if absent), Length is its size.
NewPager(f) == [backing |-> TRUE, Length |-> Len(f), pages |-> NoPages]

\* Pager.Close after its SyncToDisk: an error is returned at once, with the
\* file handle left open; otherwise the handle is closed and cleared.
Closed(p, s) ==
    IF s.err # Nil
    THEN [file |-> s.file, pager |-> p, err |-> s.err, wrote |-> s.wrote]
    ELSE [file |-> s.file, pager |-> [p EXCEPT !.backing = FALSE],
          err |-> Nil, wrote |-> s.wrote]

\* The guard of Pager.Close (a nil pager is a pager without a handle here).
\* (variant: the guard is missing)
AlreadyClosed_Never(p) == FALSE

AlreadyClosed(p) == ~p.backing

\* Pager.Close: [file, pager, err, wrote].
PagerClose(f, p) ==
    IF AlreadyClosed(p) THEN [file |-> f, pager |-> p, err |-> Nil, wrote |-> <<>>]
    ELSE Closed(p, SyncToDisk(f, p))

\* Table.Close: the error of Pager.Close is logged and returned.
TableClose(f, p) == PagerClose(f, p)

(***************************************************************************)
(* Cursor: [rowNumber, EndOfTable], bound to the one table.                *)
(***************************************************************************)
CursorAtStart(numRows) == [rowNumber |-> 0, EndOfTable |-> (numRows = 0)]

CursorAtEnd(numRows) == [rowNumber |-> numRows, EndOfTable |-> TRUE]

\* (variant: the end of the table is declared one row early)
CursorAdvance_Early(cur, numRows) ==
    LET n == Uint32(cur.rowNumber + 1)
    IN  [rowNumber |-> n, EndOfTable |-> (cur.EndOfTable \/ n + 1 >= numRows)]

CursorAdvance(cur, numRows) ==
    LET n == Uint32(cur.rowNumber + 1)
    IN  [rowNumber |-> n, EndOfTable |-> (cur.EndOfTable \/ n >= numRows)]

\* Cursor.Value after its Pager.Get.
SlotOf(g, rowOffset) ==
    IF g.err # Nil THEN [err |-> g.err, slot |-> <<>>, pages |-> g.pages, read |-> g.read]
    ELSE [err |-> Nil, slot |-> g.page[rowOffset + 1], pages |-> g.pages, read |-> g.read]

\* Cursor.Value: [err, slot, pages, read].
CursorValue(f, p, cur) ==
    SlotOf(PagerGet(f, p, cur.rowNumber \div RowsPerPage), cur.rowNumber % RowsPerPage)

(***************************************************************************)
(* Table: NumRows and the pager.                                           *)
(***************************************************************************)
\* Table.insertRow after its Pager.Get.
\* (variant: the row goes to the first slot of its page)
StoreRow_FirstSlot(g, pageNum, rowOffset, row) ==
    IF g.err # Nil THEN [err |-> g.err, pages |-> g.pages, read |-> g.read]
    ELSE [err |-> Nil,
          pages |-> [g.pages EXCEPT ![pageNum] = [g.page EXCEPT ![1] = Seralize(row)]],
          read |-> g.read]

StoreRow(g, pageNum, rowOffset, row) ==
    IF g.err # Nil THEN [err |-> g.err, pages |-> g.pages, read |-> g.read]
    ELSE [err |-> Nil,
          pages |-> [g.pages EXCEPT ![pageNum] =
                        [g.page EXCEPT ![rowOffset + 1] = Seralize(row)]],
          read |-> g.read]

\* Table.RowSlot: [err, slot, pages, read].
RowSlot(f, p, rowNum) ==
    SlotOf(PagerGet(f, p, rowNum \div RowsPerPage), rowNum % RowsPerPage)

\* Table.insertRow: [err, pages, read].
insertRow(f, p, rowNum, row) ==
    StoreRow(PagerGet(f, p, rowNum \div RowsPerPage),
             rowNum \div RowsPerPage, rowNum % RowsPerPage, row)

\* DBOpen after NewPager and numberOfRowsOnDisk.
Opened(p, n) == [panic |-> n.panic, NumRows |-> Uint32(n.rows), pager |-> p]

\* DBOpen: [panic, NumRows, pager].
DBOpen(f) == Opened(NewPager(f), numberOfRowsOnDisk(f, NewPager(f).Length))

(***************************************************************************)
(* Input lines.  A line is a record with a kind:                           *)
(*   "empty"   the empty line (also scanner.Text() after end of input)     *)
(*   "exit"    .exit                                                       *)
(*   "meta"    another line starting with '.'                              *)
(*   "insert"  insert <id> <username> <email>, three tokens present        *)
(*   "insertbad"  starts with insert, does not scan as "insert %d %s %s"   *)
(*   "select"  starts with select                                          *)
(*   "other"   anything else                                               *)
(***************************************************************************)
EmptyLine == [kind |-> "empty"]
ExitLine == [kind |-> "exit"]
MetaLine == [kind |-> "meta"]
SelectLine == [kind |-> "select"]
OtherLine == [kind |-> "other"]
BadInsertLine == [kind |-> "insertbad"]
InsertLine(i, u, e) == [kind |-> "insert", id |-> i, username |-> u, email |-> e]

\* A text token of n cells (Sscanf's %s yields a non-empty token without
\* zero cells here).
Str(n) == [i \in 1..n |-> 1]

doMetaCommand(input) ==
    IF input.kind = "exit" THEN "MetaCommandExit" ELSE "MetaCommandUnrecognizedCommand"

\* The length tests of prepareStatement.
UsernameTooLong_Geq(username) == Len(username) >= ColumnUsernameSize

UsernameTooLong(username) == Len(username) > ColumnUsernameSize

EmailTooLong(email) == Len(email) > ColumnEmailSize

\* The sign test of prepareStatement.
NegativeID_Unchecked(id) == FALSE

NegativeID(id) == id < 0

\* The row prepareStatement builds: r := Row{ID: uint32(id + 1)} and the
\* two copies into the zeroed columns.
NewRow(id, username, email) ==
    [ID |-> Uint32(IntInc(id)),
     Username |-> Copy(Zeros(ColumnUsernameSize), username),
     Email |-> Copy(Zeros(ColumnEmailSize), email)]

\* prepareStatement: [statement, result].  Sscanf's %d fails on a number
\* outside the range of int.
prepareStatement(input) ==
    IF input.kind \in {"insert", "insertbad"}
    THEN IF input.kind = "insertbad" \/ input.id < IntMin \/ input.id > IntMax
         THEN [statement |-> NilStatement, result |-> "PrepareSyntaxError"]
         ELSE IF UsernameTooLong(input.username)
         THEN [statement |-> NilStatement, result |-> "PrepareStringTooLong"]
         ELSE IF EmailTooLong(input.email)
         THEN [statement |-> NilStatement, result |-> "PrepareStringTooLong"]
         ELSE IF NegativeID(input.id)
         THEN [statement |-> NilStatement, result |-> "PrepareNegativeID"]
         ELSE [statement |->
                  [Type |-> "StatementInsert",
                   InsertRow |-> NewRow(input.id, input.username, input.email)],
               result |-> "PrepareSuccess"]
    ELSE IF input.kind = "select"
    THEN [statement |-> [Type |-> "StatementSelect"], result |-> "PrepareSuccess"]
    ELSE [statement |-> NilStatement, result |-> "PrepareUnrecognizedStatement"]

(***************************************************************************)
(* Statement execution.  Each returns [result, NumRows, pages, out].       *)
(***************************************************************************)
\* Table.executeInsert.  The error of insertRow is dropped by the code; an
\* index panic inside Pager.Get is reported as result "panic".
\* The capacity test of executeInsert.
\* (variant: the bound of the root program, src/main.go, NumRows >= TableMaxPages)
TableIsFull_Pages(numRows) == numRows >= TableMaxPages

TableIsFull(numRows) == numRows >= TableMaxRows

Inserted(numRows, ins) ==
    IF ins.err = "panic"
    THEN [result |-> "panic", NumRows |-> numRows, pages |-> ins.pages, out |-> <<>>,
          read |-> ins.read]
    ELSE [result |-> "ExecuteSuccess", NumRows |-> Uint32(numRows + 1),
          pages |-> ins.pages, out |-> <<>>, read |-> ins.read]

executeInsert(f, p, numRows, statement) ==
    IF TableIsFull(numRows)
    THEN [result |-> "ExecuteTableFull", NumRows |-> numRows, pages |-> p.pages,
          out |-> <<>>, read |-> <<>>]
    ELSE Inserted(numRows, insertRow(f, p, numRows, statement.InsertRow))

\* The loop of Table.executeSelect from cursor cur on; SelectBody is one
\* pass of its body on the value v the cursor returned.
RECURSIVE SelectLoop(_, _, _, _, _)
RECURSIVE SelectBody(_, _, _, _, _, _)
\* (variant: a row that cannot be read is skipped and the scan goes on)
SelectBody_SkipsFailed(f, p, numRows, c, o, v) ==
    IF v.err = "panic"
    THEN [result |-> "panic", NumRows |-> numRows, pages |-> v.pages, out |-> o]
    ELSE IF v.err # Nil
    THEN SelectLoop(f, [p EXCEPT !.pages = v.pages], numRows, CursorAdvance(c, numRows), o)
    ELSE SelectLoop(f, [p EXCEPT !.pages = v.pages], numRows,
                    CursorAdvance(c, numRows),
                    Append(o, RowString(DeseralizeRow(v.slot))))

SelectBody(f, p, numRows, cur, out, v) ==
    IF v.err = "panic"
    THEN [result |-> "panic", NumRows |-> numRows, pages |-> v.pages, out |-> out]
    ELSE IF v.err # Nil
    THEN [result |-> "ExecuteFailedFile", NumRows |-> numRows, pages |-> v.pages, out |-> out]
    ELSE SelectLoop(f, [p EXCEPT !.pages = v.pages], numRows,
                    CursorAdvance(cur, numRows),
                    Append(out, RowString(DeseralizeRow(v.slot))))

SelectLoop(f, p, numRows, cur, out) ==
    IF cur.EndOfTable
    THEN [result |-> "ExecuteSuccess", NumRows |-> numRows, pages |-> p.pages, out |-> out]
    ELSE SelectBody(f, p, numRows, cur, out, CursorValue(f, p, cur))

executeSelect(f, p, numRows) == SelectLoop(f, p, numRows, CursorAtStart(numRows), <<>>)

executeStatement(f, p, numRows, statement) ==
    IF statement.Type = "nil"
    THEN [result |-> "ExecuteSuccess", NumRows |-> numRows, pages |-> p.pages, out |-> <<>>]
    ELSE IF statement.Type = "StatementInsert" THEN executeInsert(f, p, numRows, statement)
    ELSE executeSelect(f, p, numRows)

(***************************************************************************)
(* State.                                                                  *)
(*   file       content of the database file                               *)
(*   pager      the Pager of the running process                           *)
(*   NumRows    Table.NumRows of the running process                       *)
(*   pc         "init" (never run), "loop" (inside Main's command loop),   *)
(*              "exit0" (Main returned 0), "panic" (the process crashed),  *)
(*              "unit" (the statement functions are called directly),      *)
(*              "api" (a caller uses the Table / Cursor / Pager methods)   *)
(*   eof        the scanner has hit the end of the input stream            *)
(*   input      the line the loop read last                                *)
(*   prep, exec the results of prepareStatement / executeStatement for it  *)
(*   out        the rows the last statement wrote to stdout                *)
(*   cur        the cursor the caller of the methods holds                 *)
(*   ret        the method called last and what it returned                *)
(* History variables, read by the properties only:                         *)
(*   written    the largest NumRows any run has reached                    *)
(*   closeScan  what a select emits immediately before the last close      *)
(*   sess       the insert lines executed with success in this run         *)
(*   closed     the deferred table.Close() of the last run: its error,     *)
(*              whether it left the file handle open, the pages it wrote   *)
(*              and the number of inserts the run had executed             *)
(*   reads      the page numbers Pager.Get has read from the file since    *)
(*              the table was opened                                       *)
(***************************************************************************)
VARIABLES file, pager, NumRows, pc, eof, input, prep, exec, out,
          written, closeScan, sess, closed, cur, ret, reads

vars == <<file, pager, NumRows, pc, eof, input, prep, exec, out,
          written, closeScan, sess, closed, cur, ret, reads, io>>

NoPager == [backing |-> FALSE, Length |-> 0, pages |-> NoPages]

NotClosed == [err |-> "none", backing |-> FALSE, wrote |-> <<>>, inserts |-> 0]

\* A nil *Cursor.
NoCursor == [nil |-> TRUE]

NoCall == [op |-> "none", err |-> Nil, slot |-> <<>>, wrote |-> <<>>, arg |-> 0]

\* The insert lines the command loop is fed.
InsertLines ==
    {InsertLine(0, Str(1), Str(1)),
     InsertLine(KeyMod - 1, Str(ColumnUsernameSize), Str(ColumnEmailSize)),
     InsertLine(0 - 1, Str(1), Str(1)),
     InsertLine(0, Str(ColumnUsernameSize + 1), Str(1)),
     InsertLine(0, Str(1), Str(ColumnEmailSize + 1))}

Init ==
    /\ file = <<>>
    /\ pager = NoPager
    /\ NumRows = 0
    /\ pc = "init"
    /\ eof = FALSE
    /\ input = EmptyLine
    /\ prep = "none"
    /\ exec = "none"
    /\ out = <<>>
    /\ written = 0
    /\ closeScan = <<>>
    /\ sess = <<>>
    /\ closed = NotClosed
    /\ cur = NoCursor
    /\ ret = NoCall
    /\ reads = <<>>
    /\ io = NoFaults

OpenedAs(o) ==
    /\ pc' = IF o.panic THEN "panic" ELSE "loop"
    /\ pager' = o.pager
    /\ NumRows' = o.NumRows

\* Main up to the command loop: DBOpen and defer table.Close().
Open ==
    /\ pc \in {"init", "exit0"}
    /\ OpenedAs(DBOpen(file))
    /\ eof' = FALSE
    /\ input' = EmptyLine
    /\ prep' = "none"
    /\ exec' = "none"
    /\ out' = <<>>
    /\ sess' = <<>>
    /\ closed' = NotClosed
    /\ UNCHANGED <<file, written, closeScan, cur, ret, reads, io>>

\* The deferred table.Close() returned c and the process ends.
Left(c) ==
    /\ file' = c.file
    /\ closed' = [err |-> c.err, backing |-> c.pager.backing, wrote |-> c.wrote,
                  inserts |-> Len(sess)]

\* Main leaves the loop with the pager p: the deferred table.Close() runs
\* (also when the process panics) and the process ends.
Leave(newpc, p) ==
    /\ pc' = newpc
    /\ Left(TableClose(file, p))
    /\ closeScan' = executeSelect(file, pager, NumRows).out
    /\ pager' = NoPager
    /\ NumRows' = 0
    /\ out' = <<>>
    /\ sess' = <<>>
    /\ UNCHANGED <<eof, written>>

\* "continue": the loop goes on to the next line, nothing else changes.
Continue ==
    /\ out' = <<>>
    /\ UNCHANGED <<file, pager, NumRows, pc, eof, written, closeScan, sess, closed>>

\* The end of an iteration whose statement was executed with result ex.
Executed(line, ex) ==
    /\ exec' = ex.result
    /\ IF ex.result = "panic"
       THEN Leave("panic", [pager EXCEPT !.pages = ex.pages])
       ELSE /\ pager' = [pager EXCEPT !.pages = ex.pages]
            /\ NumRows' = ex.NumRows
            /\ out' = ex.out
            /\ sess' = IF line.kind = "insert" /\ ex.result = "ExecuteSuccess"
                       THEN Append(sess, line) ELSE sess
            /\ written' = IF ex.NumRows > written THEN ex.NumRows ELSE written
            /\ UNCHANGED <<file, pc, eof, closeScan, closed>>

\* An iteration on a statement line, prepared as ps.
Prepared(line, ps) ==
    /\ prep' = ps.result
    /\ IF ps.result # "PrepareSuccess"
       THEN exec' = "none" /\ Continue
       ELSE Executed(line, executeStatement(file, pager, NumRows, ps.statement))

\* One iteration of Main's loop on the line read.
Iterate(line) ==
    /\ input' = line
    /\ UNCHANGED <<cur, ret, reads, io>>
    /\ IF line.kind = "empty"
       THEN prep' = "none" /\ exec' = "none" /\ Continue
       ELSE IF line.kind \in {"exit", "meta"}
       THEN /\ prep' = "none"
            /\ exec' = "none"
            /\ IF doMetaCommand(line) = "MetaCommandExit" THEN Leave("exit0", pager) ELSE Continue
       ELSE Prepared(line, prepareStatement(line))

\* The loop is running and the scanner has a line.
Scanning == pc = "loop" /\ ~eof

ReadEmptyLine ==
    /\ Scanning
    /\ Iterate(EmptyLine)

MetaExit ==
    /\ Scanning
    /\ Iterate(ExitLine)

MetaUnrecognized ==
    /\ Scanning
    /\ Iterate(MetaLine)

Insert ==
    /\ Scanning
    /\ \E l \in InsertLines : Iterate(l)

InsertUnparsable ==
    /\ Scanning
    /\ Iterate(BadInsertLine)

Select ==
    /\ Scanning
    /\ Iterate(SelectLine)

Unrecognized ==
    /\ Scanning
    /\ Iterate(OtherLine)

\* scanner.Scan() fails at the end of the input, scanner.Text() is "" and
\* the loop continues.
EndOfInput ==
    /\ pc = "loop"
    /\ eof' = TRUE
    /\ input' = EmptyLine
    /\ prep' = "none"
    /\ exec' = "none"
    /\ out' = <<>>
    /\ UNCHANGED <<file, pager, NumRows, pc, written, closeScan, sess, closed,
                   cur, ret, reads, io>>

\* The device starts to fail: from now on ReadAt or WriteAt of one page
\* returns an I/O error.
Faults ==
    {[read |-> {pg}, write |-> {}] : pg \in 0..(TableMaxPages - 1)}
    \cup {[read |-> {}, write |-> {pg}] : pg \in 0..(TableMaxPages - 1)}

DiskFails ==
    /\ pc \in {"loop", "api"}
    /\ io = NoFaults
    /\ io' \in Faults
    /\ UNCHANGED <<file, pager, NumRows, pc, eof, input, prep, exec, out,
                   written, closeScan, sess, closed, cur, ret, reads>>

Next ==
    \/ Open
    \/ ReadEmptyLine
    \/ MetaExit
    \/ MetaUnrecognized
    \/ Insert
    \/ InsertUnparsable
    \/ Select
    \/ Unrecognized
    \/ EndOfInput

Spec == Init /\ [][Next]_vars

\* The process is scheduled: a step that is possible is eventually taken.
FairSpec == Spec /\ WF_vars(Next)

\* The command loop on a device that may fail.
FaultNext == Next \/ DiskFails

FaultSpec == Init /\ [][FaultNext]_vars

(***************************************************************************)
(* The statement pipeline on its own: one line is prepared and, when it is *)
(* an accepted insert, executed on the table of a new file and read back   *)
(* by a select.  The line ranges over every id around the range of int and *)
(* every field length up to one past the column sizes.                     *)
(***************************************************************************)
PureLines ==
    {InsertLine(i, Str(u), Str(e)) :
        i \in (IntMin - 1)..(IntMax + 1),
        u \in 1..(ColumnUsernameSize + 1),
        e \in 1..(ColumnEmailSize + 1)}
    \cup {BadInsertLine, SelectLine, OtherLine}

PureInit ==
    /\ file = <<>>
    /\ pager = NoPager
    /\ NumRows = 0
    /\ pc = "unit"
    /\ eof = FALSE
    /\ input \in PureLines
    /\ prep = "none"
    /\ exec = "none"
    /\ out = <<>>
    /\ written = 0
    /\ closeScan = <<>>
    /\ sess = <<>>
    /\ closed = NotClosed
    /\ cur = NoCursor
    /\ ret = NoCall
    /\ reads = <<>>
    /\ io = NoFaults

Prepare ==
    /\ pc = "unit"
    /\ prep = "none"
    /\ prep' = prepareStatement(input).result
    /\ UNCHANGED <<file, pager, NumRows, pc, eof, input, exec, out, written,
                   closeScan, sess, closed, cur, ret, reads, io>>

\* executeStatement of the insert on the table just opened.
InsertInto(o, statement) == executeStatement(file, o.pager, o.NumRows, statement)

\* executeStatement of a select on the table after the insert.
SelectAfter(p, ins) ==
    executeStatement(file, [p EXCEPT !.pages = ins.pages], ins.NumRows,
                     prepareStatement(SelectLine).statement)

Selected(p, sel) ==
    /\ pager' = [p EXCEPT !.pages = sel.pages]
    /\ NumRows' = sel.NumRows
    /\ exec' = sel.result
    /\ out' = sel.out

InsertThenSelect ==
    /\ pc = "unit"
    /\ prep = "PrepareSuccess"
    /\ input.kind = "insert"
    /\ exec = "none"
    /\ Selected(NewPager(file),
                SelectAfter(NewPager(file),
                    InsertInto(DBOpen(file), prepareStatement(input).statement)))
    /\ UNCHANGED <<file, pc, eof, input, prep, written, closeScan, sess,
                   closed, cur, ret, reads, io>>

PureNext == Prepare \/ InsertThenSelect

PureSpec == PureInit /\ [][PureNext]_vars

(***************************************************************************)
(* The methods of Table, Cursor and Pager called in any order by a caller  *)
(* inside the package: DBOpen, executeInsert, CursorAtStart, CursorAtEnd,  *)
(* Cursor.Advance, Cursor.Value, Table.RowSlot, Pager.Flush,               *)
(* Pager.SyncToDisk and Table.Close, on a device that may fail.  The row   *)
(* inserted is the one prepareStatement builds for the id NumRows.         *)
(***************************************************************************)
\* The largest row number RowSlot is asked for: the first row of the page
\* after page number TableMaxPages.  A cursor is advanced up to row number
\* TableMaxRows.
MaxRowNum == TableMaxRows + RowsPerPage

ApiInit ==
    /\ file = <<>>
    /\ pager = NoPager
    /\ NumRows = 0
    /\ pc = "api"
    /\ eof = FALSE
    /\ input = EmptyLine
    /\ prep = "none"
    /\ exec = "none"
    /\ out = <<>>
    /\ written = 0
    /\ closeScan = <<>>
    /\ sess = <<>>
    /\ closed = NotClosed
    /\ cur = NoCursor
    /\ ret = NoCall
    /\ reads = <<>>
    /\ io = NoFaults

\* What no method touches.
Untouched == UNCHANGED <<eof, input, prep, exec, out, written, closeScan, sess, closed, io>>

\* A method has returned r; a panic ends the process.
Returned(op, arg, r) ==
    /\ ret' = [op |-> op, err |-> r.err, slot |-> r.slot, wrote |-> r.wrote, arg |-> arg]
    /\ pc' = IF r.err = "panic" THEN "panic" ELSE "api"

Calling == pc = "api" /\ pager.backing

ApiOpened(o) ==
    /\ pager' = o.pager
    /\ NumRows' = o.NumRows
    /\ Returned("DBOpen", 0,
                [err |-> IF o.panic THEN "panic" ELSE Nil, slot |-> <<>>, wrote |-> <<>>])

ApiDBOpen ==
    /\ pc = "api"
    /\ ~pager.backing
    /\ ApiOpened(DBOpen(file))
    /\ cur' = NoCursor
    /\ reads' = <<>>
    /\ UNCHANGED file
    /\ Untouched

ApiInserted(ex) ==
    /\ pager' = [pager EXCEPT !.pages = ex.pages]
    /\ NumRows' = ex.NumRows
    /\ reads' = reads \o ex.read
    /\ Returned("executeInsert", NumRows,
                [err |-> IF ex.result = "panic" THEN "panic"
                         ELSE IF ex.result = "ExecuteSuccess" THEN Nil ELSE ex.result,
                 slot |-> <<>>, wrote |-> <<>>])

ApiInsert ==
    /\ Calling
    /\ ApiInserted(executeStatement(file, pager, NumRows,
                       prepareStatement(InsertLine(NumRows, Str(1), Str(1))).statement))
    /\ UNCHANGED <<file, cur>>
    /\ Untouched

ApiCursorAtStart ==
    /\ Calling
    /\ cur' = CursorAtStart(NumRows)
    /\ ret' = [NoCall EXCEPT !.op = "CursorAtStart"]
    /\ UNCHANGED <<file, pager, NumRows, pc, reads>>
    /\ Untouched

ApiCursorAtEnd ==
    /\ Calling
    /\ cur' = CursorAtEnd(NumRows)
    /\ ret' = [NoCall EXCEPT !.op = "CursorAtEnd"]
    /\ UNCHANGED <<file, pager, NumRows, pc, reads>>
    /\ Untouched

ApiAdvance ==
    /\ Calling
    /\ cur # NoCursor
    /\ cur.rowNumber < TableMaxRows
    /\ cur' = CursorAdvance(cur, NumRows)
    /\ ret' = [NoCall EXCEPT !.op = "Advance"]
    /\ UNCHANGED <<file, pager, NumRows, pc, reads>>
    /\ Untouched

\* Cursor.Value or Table.RowSlot has returned v for row number arg.
ApiSlot(op, arg, v) ==
    /\ pager' = [pager EXCEPT !.pages = v.pages]
    /\ reads' = reads \o v.read
    /\ Returned(op, arg, [err |-> v.err, slot |-> v.slot, wrote |-> <<>>])
    /\ UNCHANGED <<file, NumRows, cur>>
    /\ Untouched

ApiValue ==
    /\ Calling
    /\ cur # NoCursor
    /\ ApiSlot("Value", cur.rowNumber, CursorValue(file, pager, cur))

ApiRowSlot ==
    /\ Calling
    /\ \E i \in 0..MaxRowNum : ApiSlot("RowSlot", i, RowSlot(file, pager, i))

\* Pager.Flush or Pager.SyncToDisk has returned fl.
ApiWrote(op, arg, fl) ==
    /\ file' = fl.file
    /\ Returned(op, arg, [err |-> fl.err, slot |-> <<>>, wrote |-> fl.wrote])
    /\ UNCHANGED <<pager, NumRows, cur, reads>>
    /\ Untouched

ApiFlush ==
    /\ Calling
    /\ \E pg \in 0..(TableMaxPages + 1) : ApiWrote("Flush", pg, PagerFlush(file, pager, pg))

ApiSyncToDisk ==
    /\ Calling
    /\ ApiWrote("SyncToDisk", 0, SyncToDisk(file, pager))

ApiClosed(c) ==
    /\ file' = c.file
    /\ pager' = c.pager
    /\ Returned("Close", 0, [err |-> c.err, slot |-> <<>>, wrote |-> c.wrote])

\* Table.Close, also on a table that is closed or was never opened.
ApiClose ==
    /\ pc = "api"
    /\ ApiClosed(TableClose(file, pager))
    /\ UNCHANGED <<NumRows, cur, reads>>
    /\ Untouched

ApiNext ==
    \/ ApiDBOpen
    \/ ApiInsert
    \/ ApiCursorAtStart
    \/ ApiCursorAtEnd
    \/ ApiAdvance
    \/ ApiValue
    \/ ApiRowSlot
    \/ ApiFlush
    \/ ApiSyncToDisk
    \/ ApiClose
    \/ DiskFails

ApiSpec == ApiInit /\ [][ApiNext]_vars

(***************************************************************************)
(* DBOpen on a file that was cut short: the file a run leaves after k      *)
(* inserts, truncated to any length of at least one cell.                  *)
(***************************************************************************)
\* The file a run on a new file leaves after inserting k rows: row r (the
\* row of id r) in slot r % RowsPerPage of page r \div RowsPerPage, every
\* page written whole.
ProducedFile(k) ==
    [i \in 1..(((k + RowsPerPage - 1) \div RowsPerPage) * PageSize) |->
        LET o == (i - 1) % PageSize
            r == ((i - 1) \div PageSize) * RowsPerPage + (o \div RowSize)
        IN  IF o < RowsPerPage * RowSize /\ r < k
            THEN Seralize(NewRow(r, Str(1), Str(1)))[(o % RowSize) + 1]
            ELSE 0]

TruncatedFiles ==
    UNION {{SubSeq(ProducedFile(k), 1, n) : n \in 1..Len(ProducedFile(k))} :
              k \in 1..TableMaxRows}

TruncInit ==
    /\ file \in TruncatedFiles
    /\ pager = NoPager
    /\ NumRows = 0
    /\ pc = "api"
    /\ eof = FALSE
    /\ input = EmptyLine
    /\ prep = "none"
    /\ exec = "none"
    /\ out = <<>>
    /\ written = 0
    /\ closeScan = <<>>
    /\ sess = <<>>
    /\ closed = NotClosed
    /\ cur = NoCursor
    /\ ret = NoCall
    /\ reads = <<>>
    /\ io = NoFaults

\* The file is opened, its rows are fetched (Pager.Get loads the partial
\* page) and the table is closed.
TruncNext == ApiDBOpen \/ ApiRowSlot \/ ApiClose

TruncSpec == TruncInit /\ [][TruncNext]_vars

(***************************************************************************)
(* The in-memory iterations of the table: the root program (src/main.go)   *)
(* and package db before the pager (src/db/db.go).  The table is NumRows   *)
(* and the array Pages, held in pager.pages; pc names the program.         *)
(***************************************************************************)
\* The capacity test of executeInsert in the root program.
RootTableIsFull(numRows) == numRows >= TableMaxPages

\* The capacity test of executeInsert in src/db/db.go.
DbTableIsFull(numRows) == numRows >= TableMaxRows

\* Table.insertRow of both programs: the array Pages after the call.
MemInsertRow(pages, rowNum, row) ==
    [pages EXCEPT ![rowNum \div RowsPerPage] =
        [pages[rowNum \div RowsPerPage] EXCEPT ![(rowNum % RowsPerPage) + 1] = Seralize(row)]]

\* Table.executeInsert of both programs, full being its capacity test.
MemExecuteInsert(full, pages, numRows, row) ==
    IF full
    THEN [result |-> "ExecuteTableFull", NumRows |-> numRows, pages |-> pages]
    ELSE [result |-> "ExecuteSuccess", NumRows |-> Uint32(numRows + 1),
          pages |-> MemInsertRow(pages, numRows, row)]

\* new(Table): no rows, the array Pages zeroed.
MemTable == [backing |-> FALSE, Length |-> 0,
             pages |-> [p \in 0..(TableMaxPages - 1) |-> ZeroPage]]

\* The rows the inserts are fed.
MemRows ==
    {[ID |-> i, Username |-> Copy(Zeros(ColumnUsernameSize), Str(1)),
      Email |-> Copy(Zeros(ColumnEmailSize), Str(1))] : i \in 1..3}

MemInit ==
    /\ file = <<>>
    /\ pager = MemTable
    /\ NumRows = 0
    /\ pc \in {"main.go", "db.go"}
    /\ eof = FALSE
    /\ input = EmptyLine
    /\ prep = "none"
    /\ exec = "none"
    /\ out = <<>>
    /\ written = 0
    /\ closeScan = <<>>
    /\ sess = <<>>
    /\ closed = NotClosed
    /\ cur = NoCursor
    /\ ret = NoCall
    /\ reads = <<>>
    /\ io = NoFaults

MemInserted(ex) ==
    /\ exec' = ex.result
    /\ NumRows' = ex.NumRows
    /\ pager' = [pager EXCEPT !.pages = ex.pages]

\* An insert statement executed by the root program.
RootInsert ==
    /\ pc = "main.go"
    /\ \E row \in MemRows :
          MemInserted(MemExecuteInsert(RootTableIsFull(NumRows), pager.pages, NumRows, row))
    /\ UNCHANGED <<file, pc, eof, input, prep, out, written, closeScan, sess,
                   closed, cur, ret, reads, io>>

\* An insert statement executed by src/db/db.go.
DbInsert ==
    /\ pc = "db.go"
    /\ \E row \in MemRows :
          MemInserted(MemExecuteInsert(DbTableIsFull(NumRows), pager.pages, NumRows, row))
    /\ UNCHANGED <<file, pc, eof, input, prep, out, written, closeScan, sess,
                   closed, cur, ret, reads, io>>

MemNext == RootInsert \/ DbInsert

MemSpec == MemInit /\ [][MemNext]_vars

(***************************************************************************)
(* Properties.                                                             *)
(***************************************************************************)
\* The row buffer of slot i in the file f (zero beyond the end of the file).
FileSlot(f, i) ==
    LET off == (i \div RowsPerPage) * PageSize + (i % RowsPerPage) * RowSize
    IN  [k \in 1..RowSize |-> IF off + k <= Len(f) THEN f[off + k] ELSE 0]

\* The content of slot i as the program holds it: in the resident page if
\* the running process has loaded it, in the file otherwise.
View(i) ==
    IF pager.backing /\ pager.pages[i \div RowsPerPage] # NilPage
    THEN pager.pages[i \div RowsPerPage][(i % RowsPerPage) + 1]
    ELSE FileSlot(file, i)

\* The row an accepted insert line stands for.
RowOfLine(l) == prepareStatement(l).statement.InsertRow

\* NumRows as DBOpen recovered it in this run.
RowsAtOpen == NumRows - Len(sess)

\* The row count the specification gives for a file: the rows of the pages
\* before the last one plus the leading non-zero-id slots of the last page.
SpecRowCount(f) ==
    IF Len(f) = 0 THEN 0
    ELSE LET n == Len(f) \div PageSize
         IN  (n - 1) * RowsPerPage
             + CountRows(Copy(Zeros(PageSize), From(f, (n - 1) * PageSize)), 0)

\* Every slot written so far holds a non-zero key.  The three statements
\* below are put under this condition, so that what refutes them is the
\* row count recovery alone and not a stored key of zero (C10).
KeysNonZero == \A i \in 0..(written - 1) : DeseralizeRow(View(i)).ID # 0

\* C1 (as claimed, for rows with non-zero keys): a select in a run that has
\* inserted nothing emits exactly the rows a select emitted just before the
\* previous run closed the table.
C1_PersistenceAcrossReopen ==
    (pc = "loop" /\ input.kind = "select" /\ sess = <<>> /\ KeysNonZero) =>
        out = closeScan

\* C2 (as claimed, for rows with non-zero keys): the row count recovered at
\* open is (numberOfPages-1) * RowsPerPage + the leading non-zero-id slots
\* of the last page, and it is the row count the table had when it was
\* closed.
C2_RowCountRecovered ==
    (pc = "loop" /\ sess = <<>> /\ KeysNonZero) =>
        /\ NumRows = SpecRowCount(file)
        /\ NumRows = Len(closeScan)

\* C3 (as claimed, for rows with non-zero keys): no step changes the
\* content of a slot that has been written, and every successful insert
\* goes to a slot beyond all the slots written so far.
C3_RowNeverOverwritten ==
    [][KeysNonZero =>
          /\ \A i \in 0..(written - 1) : View(i)' = View(i)
          /\ Len(sess') > Len(sess) => NumRows >= written]_vars

\* C4: an accepted insert succeeds and adds one row while NumRows is below
\* TableMaxRows; at NumRows = TableMaxRows it returns ExecuteTableFull and
\* leaves NumRows, every page and the file as they were.
C4_CapacityBoundary ==
    [][(input'.kind = "insert" /\ prep' = "PrepareSuccess") =>
          IF NumRows < TableMaxRows
          THEN /\ exec' = "ExecuteSuccess"
               /\ NumRows' = NumRows + 1
               /\ \A n \in {NumRows} : View(n)' = Seralize(RowOfLine(input'))
          ELSE /\ exec' = "ExecuteTableFull"
               /\ NumRows' = NumRows
               /\ pager' = pager
               /\ file' = file]_vars

\* C4 witness: a run on the empty table has inserted TableMaxRows rows and
\* the next insert was refused.
C4_Witness ==
    /\ pc = "loop"
    /\ input.kind = "insert"
    /\ exec = "ExecuteTableFull"
    /\ NumRows = TableMaxRows
    /\ Len(sess) = TableMaxRows

\* C5: a select on a table of n rows returns ExecuteSuccess and emits n
\* rows: first the rows the file held at open, in slot order, then the rows
\* inserted in this run, each once, in insertion order.
C5_ScanInInsertionOrder ==
    (pc = "loop" /\ input.kind = "select") =>
        /\ exec = "ExecuteSuccess"
        /\ Len(out) = NumRows
        /\ \A i \in 0..(RowsAtOpen - 1) :
              out[i + 1] = RowString(DeseralizeRow(FileSlot(file, i)))
        /\ \A j \in 1..Len(sess) :
              out[RowsAtOpen + j] = RowString(RowOfLine(sess[j]))

\* C5 witness: a select over rows of two kinds, inserted in this run, that
\* span more than one page.
C5_Witness ==
    /\ pc = "loop"
    /\ input.kind = "select"
    /\ Len(sess) = Len(out)
    /\ Len(out) > RowsPerPage
    /\ out[1] # out[Len(out)]

\* C6 (as claimed): once the input stream has ended, Main returns 0.
C6_MainReturnsAtEndOfInput == eof ~> (pc = "exit0")

\* C7: an insert line whose id is an int is accepted exactly when the id is
\* non-negative and both fields fit their columns; a field one cell too
\* long gives PrepareStringTooLong (whatever the id), and a negative id
\* with fitting fields gives PrepareNegativeID.
C7_PrepareAcceptance ==
    (pc = "unit" /\ prep # "none" /\ input.kind = "insert"
        /\ input.id >= IntMin /\ input.id <= IntMax) =>
        prep = IF Len(input.username) > ColumnUsernameSize
                  \/ Len(input.email) > ColumnEmailSize
               THEN "PrepareStringTooLong"
               ELSE IF input.id < 0 THEN "PrepareNegativeID"
               ELSE "PrepareSuccess"

\* C7 witness: fields of exactly the column sizes were accepted.
C7_Witness ==
    /\ pc = "unit"
    /\ prep = "PrepareSuccess"
    /\ input.kind = "insert"
    /\ Len(input.username) = ColumnUsernameSize
    /\ Len(input.email) = ColumnEmailSize

\* The lines the validation has to reject.
ClaimRejects(l) ==
    \/ l.kind \in {"insertbad", "other"}
    \/ /\ l.kind = "insert"
       /\ \/ l.id < 0
          \/ Len(l.username) > ColumnUsernameSize
          \/ Len(l.email) > ColumnEmailSize

\* C8: the iteration on a line with an oversized field, a negative id, a
\* syntax error or an unrecognized keyword executes nothing and leaves
\* NumRows, the page cache and the file unchanged.
C8_RejectedLeavesStorage ==
    [][ClaimRejects(input') =>
          /\ prep' # "PrepareSuccess"
          /\ exec' = "none"
          /\ NumRows' = NumRows
          /\ pager' = pager
          /\ file' = file
          /\ out' = <<>>]_vars

\* C8 witness: a negative id was rejected on a table that holds rows.
C8_Witness ==
    /\ pc = "loop"
    /\ ClaimRejects(input)
    /\ prep = "PrepareNegativeID"
    /\ NumRows > 0

\* C9 (as claimed): the id a select renders for an inserted row is the id
\* of the insert line.
C9_IdRoundTrip ==
    (pc = "unit" /\ exec = "ExecuteSuccess") =>
        /\ Len(out) = 1
        /\ out[1][1] = input.id

\* C10 (as claimed): the key stored by an accepted insert is not zero.
C10_StoredKeyNonZero ==
    (pc = "unit" /\ exec = "ExecuteSuccess") =>
        DeseralizeRow(pager.pages[0][1]).ID # 0

\* The cells of page pg in the file f.
FilePage(f, pg) == [k \in 1..PageSize |-> IF pg * PageSize + k <= Len(f) THEN f[pg * PageSize + k] ELSE 0]

\* C11 (as claimed): whenever the process leaves the command loop, every
\* resident page has been written to its place in the file and the
\* deferred close has returned without error, leaving no open file handle.
C11_ReleasedOnEveryExit ==
    [][(pc = "loop" /\ pc' # "loop") =>
          /\ closed'.err = Nil
          /\ ~closed'.backing
          /\ \A pg \in 0..(TableMaxPages - 1) :
                pager.pages[pg] # NilPage =>
                    FilePage(file', pg) = BytesOfPage(pager.pages[pg])]_vars

\* The error insertRow returns for the row of line l on the present table.
InsertError(l) == insertRow(file, pager, NumRows, RowOfLine(l)).err

\* C15 (as claimed): NumRows changes only by a successful insert, which
\* adds one; an insert whose insertRow fails to obtain the page does not
\* report ExecuteSuccess and leaves NumRows as it was.
C15_InsertErrorReachesCaller ==
    [][pc = "loop" =>
          /\ (pc' = "loop" /\ NumRows' # NumRows) =>
                (exec' = "ExecuteSuccess" /\ NumRows' = NumRows + 1)
          /\ (input'.kind = "insert" /\ prep' = "PrepareSuccess"
                 /\ NumRows < TableMaxRows /\ InsertError(input') # Nil) =>
                (exec' # "ExecuteSuccess" /\ NumRows' = NumRows)]_vars

\* Cursor.Value fails for row i of the present table.
ValueFails(i) == CursorValue(file, pager, [rowNumber |-> i, EndOfTable |-> FALSE]).err # Nil

\* The rows a scan emits for the slots 0 .. k-1 of the present table.
RowsBelow(k) == [i \in 1..k |-> RowString(DeseralizeRow(View(i - 1)))]

\* C20: a select on a table where Cursor.Value fails for row k, and for no
\* row before it, returns ExecuteFailedFile, has emitted exactly the rows
\* 0 .. k-1 and leaves NumRows unchanged.
C20_ReadFailureAbortsScan ==
    [][(pc = "loop" /\ pc' = "loop" /\ input'.kind = "select") =>
          \A k \in 0..(NumRows - 1) :
              (ValueFails(k) /\ \A i \in 0..(k - 1) : ~ValueFails(i)) =>
                  /\ exec' = "ExecuteFailedFile"
                  /\ out' = RowsBelow(k)
                  /\ NumRows' = NumRows]_vars

\* C20 witness: a scan was aborted by a read failure after it had emitted
\* rows.
C20_Witness ==
    /\ pc = "loop"
    /\ input.kind = "select"
    /\ exec = "ExecuteFailedFile"
    /\ Len(out) > 0
    /\ Len(out) < NumRows

\* The page number the method called last handed to the pager.
PageArg(r) == IF r.op = "Flush" THEN r.arg ELSE r.arg \div RowsPerPage

\* The step is a call of method op (a failure of the device is no call).
Called(op) == pc = "api" /\ io' = io /\ ret'.op = op

\* The row buffer of row number i in the page cache.
PageSlot(pages, i) == pages[i \div RowsPerPage][(i % RowsPerPage) + 1]

Resident(pg) == pg \in 0..(TableMaxPages - 1) /\ pager.pages[pg] # NilPage

\* C12: Close on a pager without a file handle (closed before, or never
\* opened) writes nothing, returns no error and changes neither the file
\* nor the pager.
C12_CloseIdempotent ==
    [][(Called("Close") /\ ~pager.backing) =>
          /\ ret'.err = Nil
          /\ ret'.wrote = <<>>
          /\ file' = file
          /\ pager' = pager]_vars

\* C12 witness: Close has returned without a write on a pager that is
\* closed and still holds a page: the second Close.
C12_Witness ==
    /\ pc = "api"
    /\ ret.op = "Close"
    /\ ret.wrote = <<>>
    /\ ~pager.backing
    /\ pager.pages[0] # NilPage

\* C13 (as claimed): no call of Cursor.Value, Table.RowSlot, executeInsert
\* or Pager.Flush indexes the page array out of range, and a page number
\* above TableMaxPages is answered with the out-of-bounds error.
C13_PageIndexBound ==
    (ret.op \in {"Value", "RowSlot", "executeInsert", "Flush"}) =>
        /\ ret.err # "panic"
        /\ PageArg(ret) > TableMaxPages => ret.err = "bounds"

\* C14 (as claimed): a cursor's EndOfTable is true exactly when its row
\* number is at or beyond NumRows.
C14_CursorEndOfTable ==
    (pc = "api" /\ cur # NoCursor) => (cur.EndOfTable <=> cur.rowNumber >= NumRows)

\* The row executeInsert stores for row number n.
ApiRow(n) == RowOfLine(InsertLine(n, Str(1), Str(1)))

\* C16: NumRows never exceeds TableMaxRows = RowsPerPage * TableMaxPages;
\* an insert whose page was obtained puts the row into slot
\* n % RowsPerPage of page n \div RowsPerPage, n being NumRows, and into no
\* other slot; Cursor.Value and Table.RowSlot return that same slot for row
\* number n.
C16_RowPlacement ==
    [][/\ NumRows' <= TableMaxRows
       /\ TableMaxRows = RowsPerPage * TableMaxPages
       /\ (Called("executeInsert") /\ ret'.err = Nil
             /\ PagerGet(file, pager, NumRows \div RowsPerPage).err = Nil) =>
             /\ PageSlot(pager'.pages, NumRows) = Seralize(ApiRow(NumRows))
             /\ \A j \in 0..(TableMaxRows - 1) :
                   (j # NumRows /\ Resident(j \div RowsPerPage)) =>
                       PageSlot(pager'.pages, j) = PageSlot(pager.pages, j)
       /\ ((Called("Value") \/ Called("RowSlot")) /\ ret'.err = Nil) =>
             ret'.slot = PageSlot(pager'.pages, ret'.arg)]_vars

\* C16 witness: the table is full and Cursor.Value has returned the row
\* inserted last, from the last slot of the last page.
C16_Witness ==
    /\ pc = "api"
    /\ NumRows = TableMaxRows
    /\ ret.op = "Value"
    /\ ret.arg = TableMaxRows - 1
    /\ ret.slot = Seralize(ApiRow(TableMaxRows - 1))
    /\ ret.slot = pager.pages[TableMaxPages - 1][RowsPerPage]

C18_CloseWritesResidentPages ==
    [][/\ (Called("Close") /\ pager.backing /\ ret'.err = Nil) =>
             \A pg \in 0..(TableMaxPages - 1) :
                 FilePage(file', pg) = IF Resident(pg) THEN BytesOfPage(pager.pages[pg])
                                       ELSE FilePage(file, pg)
       /\ (Called("Flush") /\ PageArg(ret') < TableMaxPages
             /\ ~Resident(PageArg(ret'))) =>
             /\ file' = file
             /\ ret'.wrote = <<>>
             /\ ret'.err = Nil]_vars

\* C18 witness: Close has written page 0 and the file holds a further page
\* that was not loaded.
C18_Witness ==
    /\ pc = "api"
    /\ ret.op = "Close"
    /\ ret.err = Nil
    /\ ret.wrote = <<0>>
    /\ pager.pages[TableMaxPages - 1] = NilPage
    /\ Len(file) = TableMaxPages * PageSize

\* C19: SyncToDisk writes the resident pages in increasing order of page
\* number; when the Flush of a page fails it returns that error and writes
\* no page of a higher number.
C19_SyncStopsAtFirstError ==
    [][Called("SyncToDisk") =>
          /\ \A i, j \in 1..Len(ret'.wrote) : i < j => ret'.wrote[i] < ret'.wrote[j]
          /\ \A pg \in 0..(TableMaxPages - 1) :
                (Resident(pg) /\ pg \in io.write) =>
                    /\ ret'.err = "io"
                    /\ \A k \in 1..Len(ret'.wrote) : ret'.wrote[k] < pg
                    /\ \A h \in pg..(TableMaxPages - 1) :
                          FilePage(file', h) = FilePage(file, h)
          /\ (\A pg \in 0..(TableMaxPages - 1) : Resident(pg) => pg \notin io.write) =>
                /\ ret'.err = Nil
                /\ \A pg \in 0..(TableMaxPages - 1) :
                      Resident(pg) <=> \E k \in 1..Len(ret'.wrote) : ret'.wrote[k] = pg]_vars

\* C19 witness: SyncToDisk has failed on page 0 and a resident page of a
\* higher number was left unwritten.
C19_Witness ==
    /\ pc = "api"
    /\ ret.op = "SyncToDisk"
    /\ ret.err = "io"
    /\ ret.wrote = <<>>
    /\ io.write = {0}
    /\ pager.pages[0] # NilPage
    /\ pager.pages[TableMaxPages - 1] # NilPage
    /\ FilePage(file, TableMaxPages - 1) # BytesOfPage(pager.pages[TableMaxPages - 1])

\* The row count the specification gives for a file whose last page may be
\* cut short: the rows of the pages before the last one plus the leading
\* non-zero-id slots of the last page.
TruncRowCount(f) ==
    LET n == (Len(f) + PageSize - 1) \div PageSize
    IN  (n - 1) * RowsPerPage
        + CountRows(Copy(Zeros(PageSize), From(f, (n - 1) * PageSize)), 0)

\* C21 (as claimed, for the lengths that are not a multiple of PageSize):
\* DBOpen on a file whose last page is cut short does not fail and
\* recovers the rows of the pages before the last one plus the non-zero-id
\* rows of the partial last page.
C21_TruncatedLastPage ==
    (ret.op = "DBOpen" /\ Len(file) % PageSize # 0) =>
        /\ ret.err = Nil
        /\ pc = "api"
        /\ NumRows = TruncRowCount(file)

\* C22 (as claimed): in the root program and in src/db/db.go an insert
\* returns ExecuteTableFull exactly when NumRows >= TableMaxRows, and below
\* that it succeeds and adds one row.
C22_InMemoryTableFull ==
    [][(pc \in {"main.go", "db.go"}) =>
          /\ exec' = "ExecuteTableFull" <=> NumRows >= TableMaxRows
          /\ NumRows < TableMaxRows =>
                (exec' = "ExecuteSuccess" /\ NumRows' = NumRows + 1)]_vars

\* C23 (as claimed, for rows with non-zero keys): while a table is open,
\* every row slot from NumRows on holds key zero, in the resident page or
\* else in the file.
C23_NoRowBeyondNumRows ==
    (pc = "loop" /\ KeysNonZero) =>
        \A i \in NumRows..(TableMaxRows - 1) : DeseralizeRow(View(i)).ID = 0

\* C24: a select changes neither NumRows nor the file, and a run that has
\* executed no insert leaves the file, on exit, with the content and the
\* length it had (the file is written by the close only, so that is the
\* file as it was opened).
C24_SelectOnlyKeepsFile ==
    [][/\ (pc = "loop" /\ pc' = "loop" /\ input'.kind = "select") =>
             (NumRows' = NumRows /\ file' = file)
       /\ pc = "loop" => (pc' = "loop" => file' = file)
       /\ (pc = "loop" /\ pc' = "exit0" /\ sess = <<>>) =>
             (file' = file /\ Len(file') = Len(file))]_vars

\* C24 witness: a run without an insert has scanned rows and its close has
\* written the pages the scan loaded.
C24_Witness ==
    /\ pc = "exit0"
    /\ closed.inserts = 0
    /\ closed.err = Nil
    /\ closed.wrote # <<>>
    /\ Len(closeScan) > 0

\* C25: the length of the file is a multiple of PageSize at all times; a
\* close that succeeds does not shorten the file and leaves it at least
\* (pg + 1) * PageSize long for every page pg that was resident.
C25_FileLengthWholePages ==
    [][/\ Len(file') % PageSize = 0
       /\ (pc = "loop" /\ pc' # "loop" /\ closed'.err = Nil) =>
             /\ Len(file') >= Len(file)
             /\ \A pg \in 0..(TableMaxPages - 1) :
                   Resident(pg) => Len(file') >= (pg + 1) * PageSize]_vars

\* C25 witness: a close that wrote the last page only has left a file of
\* TableMaxPages whole pages.
C25_Witness ==
    /\ pc = "exit0"
    /\ closed.err = Nil
    /\ closed.wrote = <<TableMaxPages - 1>>
    /\ Len(file) = TableMaxPages * PageSize

====
